---- MODULE Spec2Model ----
(***************************************************************************)
(* Model of the build configurator of pdfium-wrapper-sys (build.rs).      *)
(*                                                                         *)
(* A Rust String / PathBuf is modelled as a sequence of tokens: a token is *)
(* either a separator ("/" in a path, "-" in a target triple) or a run of  *)
(* other characters.  Concatenation of strings is \o, so PathBuf::join,    *)
(* Display and the panic / println formatting are computed, not assumed.   *)
(*                                                                         *)
(* One behaviour is one run of main(): the environment is fixed in Init,   *)
(* and each statement of main is one step, sequenced by pc.                *)
(***************************************************************************)
EXTENDS Naturals, Sequences, FiniteSets

VARIABLES
    env,        \* the process environment: PDFIUM_LIB_DIR, PDFIUM_ROOT, TARGET
    pc,         \* the statement of main that runs next, "done" or "panicked"
    root,       \* main's local root
    target,     \* main's local target
    subdir,     \* main's local subdir
    lib_dir,    \* main's local lib_dir
    entry,      \* what lib_dir.exists() found on the filesystem
    out,        \* the lines printed to stdout so far
    panic_msg   \* the message of the panic that ended the run

vars == <<env, pc, root, target, subdir, lib_dir, entry, out, panic_msg>>

\* Longest path string (in tokens) the environment supplies in the model.
MaxPathLen == 2

\* Tokens an environment-supplied path is made of.
PathChars == {"/", "p"}

PathStrings == UNION {[1..k -> PathChars] : k \in 0..MaxPathLen}

\* A value that is set in the environment but is not valid Unicode.
RawBytes == <<"0xFF">>

(***************************************************************************)
(* Target triples.                                                         *)
(***************************************************************************)
T_aarch64_linux_android   == <<"aarch64", "-", "linux", "-", "android">>
T_armv7_linux_androideabi == <<"armv7", "-", "linux", "-", "androideabi">>
T_x86_64_linux_android    == <<"x86_64", "-", "linux", "-", "android">>
T_i686_linux_android      == <<"i686", "-", "linux", "-", "android">>
T_aarch64_apple_ios       == <<"aarch64", "-", "apple", "-", "ios">>
T_x86_64_apple_ios        == <<"x86_64", "-", "apple", "-", "ios">>
T_aarch64_apple_ios_sim   == <<"aarch64", "-", "apple", "-", "ios", "-", "sim">>

\* Triples outside the table that a build can be run for.
OtherTargets ==
    { <<"x86_64", "-", "unknown", "-", "linux", "-", "gnu">>,
      <<"aarch64", "-", "apple", "-", "darwin">>,
      <<"arm", "-", "linux", "-", "androideabi">>,
      <<"x86_64", "-", "apple", "-", "ios", "-", "sim">>,
      <<"aarch64", "-", "apple", "-", "ios", "-", "macabi">>,
      <<>> }

TableTargets ==
    { T_aarch64_linux_android, T_armv7_linux_androideabi,
      T_x86_64_linux_android, T_i686_linux_android,
      T_aarch64_apple_ios, T_x86_64_apple_ios, T_aarch64_apple_ios_sim }

TargetStrings == TableTargets \cup OtherTargets

(***************************************************************************)
(* The process environment.  A variable is unset, set to bytes that are    *)
(* not valid Unicode, or set to a string.                                  *)
(***************************************************************************)
Unset == [st |-> "unset", val |-> <<>>]

NotUnicode == [st |-> "notunicode", val |-> RawBytes]

Str(s) == [st |-> "ok", val |-> s]

EnvValues(strings) == {Unset, NotUnicode} \cup {Str(s) : s \in strings}

\* std::env::var: Ok(value) only for a variable that is set to valid
\* Unicode; Err(NotPresent) or Err(NotUnicode) otherwise.
env_var(key) ==
    IF env[key].st = "ok"
    THEN [ok |-> TRUE, val |-> env[key].val]
    ELSE [ok |-> FALSE,
          val |-> IF env[key].st = "unset"
                  THEN <<"NotPresent">>
                  ELSE <<"NotUnicode(", "0xFF", ")">>]

(***************************************************************************)
(* Paths.                                                                  *)
(***************************************************************************)
is_absolute(path) == Len(path) > 0 /\ path[1] = "/"

\* Join without the separator PathBuf::push inserts.
JoinNoSep(self, path) == self \o path

\* PathBuf::join: an absolute argument replaces self; otherwise a
\* separator is added unless self is empty or already ends with one.
Join(self, path) ==
    IF is_absolute(path) THEN path
    ELSE IF Len(self) > 0 /\ self[Len(self)] # "/"
         THEN self \o <<"/">> \o path
         ELSE self \o path

(***************************************************************************)
(* target_to_subdir                                                        *)
(***************************************************************************)
UnsupportedTargetMsg(t) ==
    <<"pdfium-wrapper-sys: unsupported target '">> \o t
        \o <<"'. Set ", "PDFIUM_LIB_DIR", " manually.">>

\* target_to_subdir with the arm64 simulator sent to the device directory.
target_to_subdir_SimAsDevice(t) ==
    CASE t = T_aarch64_linux_android   -> [ok |-> TRUE, val |-> <<"android", "/", "arm64-v8a">>]
      [] t = T_armv7_linux_androideabi -> [ok |-> TRUE, val |-> <<"android", "/", "armeabi-v7a">>]
      [] t = T_x86_64_linux_android    -> [ok |-> TRUE, val |-> <<"android", "/", "x86_64">>]
      [] t = T_i686_linux_android      -> [ok |-> TRUE, val |-> <<"android", "/", "x86">>]
      [] t = T_aarch64_apple_ios       -> [ok |-> TRUE, val |-> <<"ios", "/", "arm64">>]
      [] t = T_x86_64_apple_ios        -> [ok |-> TRUE, val |-> <<"ios", "/", "x86_64">>]
      [] t = T_aarch64_apple_ios_sim   -> [ok |-> TRUE, val |-> <<"ios", "/", "arm64">>]
      [] OTHER                         -> [ok |-> FALSE, val |-> UnsupportedTargetMsg(t)]

\* target_to_subdir with a wildcard arm that guesses a directory instead
\* of panicking.
target_to_subdir_Guess(t) ==
    CASE t = T_aarch64_linux_android   -> [ok |-> TRUE, val |-> <<"android", "/", "arm64-v8a">>]
      [] t = T_armv7_linux_androideabi -> [ok |-> TRUE, val |-> <<"android", "/", "armeabi-v7a">>]
      [] t = T_x86_64_linux_android    -> [ok |-> TRUE, val |-> <<"android", "/", "x86_64">>]
      [] t = T_i686_linux_android      -> [ok |-> TRUE, val |-> <<"android", "/", "x86">>]
      [] t = T_aarch64_apple_ios       -> [ok |-> TRUE, val |-> <<"ios", "/", "arm64">>]
      [] t = T_x86_64_apple_ios        -> [ok |-> TRUE, val |-> <<"ios", "/", "x86_64">>]
      [] t = T_aarch64_apple_ios_sim   -> [ok |-> TRUE, val |-> <<"ios", "/", "x86_64">>]
      [] OTHER                         -> [ok |-> TRUE, val |-> <<"android", "/", "arm64-v8a">>]

\* target_to_subdir with the 32-bit x86 Android arm missing.
target_to_subdir_NoI686(t) ==
    CASE t = T_aarch64_linux_android   -> [ok |-> TRUE, val |-> <<"android", "/", "arm64-v8a">>]
      [] t = T_armv7_linux_androideabi -> [ok |-> TRUE, val |-> <<"android", "/", "armeabi-v7a">>]
      [] t = T_x86_64_linux_android    -> [ok |-> TRUE, val |-> <<"android", "/", "x86_64">>]
      [] t = T_aarch64_apple_ios       -> [ok |-> TRUE, val |-> <<"ios", "/", "arm64">>]
      [] t = T_x86_64_apple_ios        -> [ok |-> TRUE, val |-> <<"ios", "/", "x86_64">>]
      [] t = T_aarch64_apple_ios_sim   -> [ok |-> TRUE, val |-> <<"ios", "/", "x86_64">>]
      [] OTHER                         -> [ok |-> FALSE, val |-> UnsupportedTargetMsg(t)]

target_to_subdir(t) ==
    CASE t = T_aarch64_linux_android   -> [ok |-> TRUE, val |-> <<"android", "/", "arm64-v8a">>]
      [] t = T_armv7_linux_androideabi -> [ok |-> TRUE, val |-> <<"android", "/", "armeabi-v7a">>]
      [] t = T_x86_64_linux_android    -> [ok |-> TRUE, val |-> <<"android", "/", "x86_64">>]
      [] t = T_i686_linux_android      -> [ok |-> TRUE, val |-> <<"android", "/", "x86">>]
      [] t = T_aarch64_apple_ios       -> [ok |-> TRUE, val |-> <<"ios", "/", "arm64">>]
      [] t = T_x86_64_apple_ios        -> [ok |-> TRUE, val |-> <<"ios", "/", "x86_64">>]
      [] t = T_aarch64_apple_ios_sim   -> [ok |-> TRUE, val |-> <<"ios", "/", "x86_64">>]
      [] OTHER                         -> [ok |-> FALSE, val |-> UnsupportedTargetMsg(t)]

(***************************************************************************)
(* Diagnostics and directives of main.                                     *)
(***************************************************************************)
NoLibMsg ==
    << "pdfium-wrapper-sys: cannot find native libraries.",
       "Set one of:",
       "PDFIUM_LIB_DIR", "=/path/to/<arch>/lib",
       "PDFIUM_ROOT", "=/path/to/extracted/pdf-engine" >>

UnwrapMsg(err) == <<"called Result::unwrap() on an Err value: ">> \o err

DirMissingMsg(dir) ==
    <<"pdfium-wrapper-sys: library directory does not exist: ">> \o dir

LinkSearch(dir) == <<"cargo:rustc-link-search=native=">> \o dir

LinkStatic == <<"cargo:rustc-link-lib=static=", "pdfium_wrapper">>

LinkDylib == <<"cargo:rustc-link-lib=dylib=", "pdfium">>

RerunLibDir == <<"cargo:rerun-if-env-changed=", "PDFIUM_LIB_DIR">>

RerunRoot == <<"cargo:rerun-if-env-changed=", "PDFIUM_ROOT">>

\* What the filesystem holds at a path when Path::exists looks at it.
FsEntries == {"absent", "dir", "file"}

exists(e) == e # "absent"

Abort(msg) ==
    /\ pc' = "panicked"
    /\ panic_msg' = msg

(***************************************************************************)
(* main                                                                    *)
(***************************************************************************)
Init ==
    /\ env \in [ PDFIUM_LIB_DIR : EnvValues(PathStrings),
                 PDFIUM_ROOT    : EnvValues(PathStrings),
                 TARGET         : EnvValues(TargetStrings) ]
    /\ pc = "read_lib_dir"
    /\ root = <<>>
    /\ target = <<>>
    /\ subdir = <<>>
    /\ lib_dir = <<>>
    /\ entry = "unchecked"
    /\ out = <<>>
    /\ panic_msg = <<>>

\* if let Ok(dir) = env::var("PDFIUM_LIB_DIR") { PathBuf::from(dir) }
ReadLibDir ==
    /\ pc = "read_lib_dir"
    /\ LET r == env_var("PDFIUM_LIB_DIR") IN
       IF r.ok
       THEN /\ lib_dir' = r.val
            /\ pc' = "exists"
       ELSE /\ pc' = "read_root"
            /\ UNCHANGED lib_dir
    /\ UNCHANGED <<env, root, target, subdir, entry, out, panic_msg>>

\* else if let Ok(root) = env::var("PDFIUM_ROOT") { ... } else { panic!(...) }
ReadRoot ==
    /\ pc = "read_root"
    /\ LET r == env_var("PDFIUM_ROOT") IN
       IF r.ok
       THEN /\ root' = r.val
            /\ pc' = "read_target"
            /\ UNCHANGED panic_msg
       ELSE /\ Abort(NoLibMsg)
            /\ UNCHANGED root
    /\ UNCHANGED <<env, target, subdir, lib_dir, entry, out>>

\* let target = env::var("TARGET").unwrap();
ReadTarget ==
    /\ pc = "read_target"
    /\ LET r == env_var("TARGET") IN
       IF r.ok
       THEN /\ target' = r.val
            /\ pc' = "subdir"
            /\ UNCHANGED panic_msg
       ELSE /\ Abort(UnwrapMsg(r.val))
            /\ UNCHANGED target
    /\ UNCHANGED <<env, root, subdir, lib_dir, entry, out>>

\* let subdir = target_to_subdir(&target);
TargetToSubdir ==
    /\ pc = "subdir"
    /\ LET r == target_to_subdir(target) IN
       IF r.ok
       THEN /\ subdir' = r.val
            /\ pc' = "join"
            /\ UNCHANGED panic_msg
       ELSE /\ Abort(r.val)
            /\ UNCHANGED subdir
    /\ UNCHANGED <<env, root, target, lib_dir, entry, out>>

\* PathBuf::from(root).join(subdir).join("lib")
JoinLibDir ==
    /\ pc = "join"
    /\ lib_dir' = Join(Join(root, subdir), <<"lib">>)
    /\ pc' = "exists"
    /\ UNCHANGED <<env, root, target, subdir, entry, out, panic_msg>>

\* The existence check left out: every resolved path goes on to the linker.
CheckExistsSkipped ==
    /\ pc = "exists"
    /\ \E e \in FsEntries :
         /\ entry' = e
         /\ pc' = "link_search"
    /\ UNCHANGED <<env, root, target, subdir, lib_dir, out, panic_msg>>

\* The link-search directive printed before the existence check.
CheckExistsAfterPrint ==
    /\ pc = "exists"
    /\ out' = Append(out, LinkSearch(lib_dir))
    /\ \E e \in FsEntries :
         /\ entry' = e
         /\ IF exists(e)
            THEN /\ pc' = "link_static"
                 /\ UNCHANGED panic_msg
            ELSE Abort(DirMissingMsg(lib_dir))
    /\ UNCHANGED <<env, root, target, subdir, lib_dir>>

\* if !lib_dir.exists() { panic!(...) }
CheckExists ==
    /\ pc = "exists"
    /\ \E e \in FsEntries :
         /\ entry' = e
         /\ IF exists(e)
            THEN /\ pc' = "link_search"
                 /\ UNCHANGED panic_msg
            ELSE Abort(DirMissingMsg(lib_dir))
    /\ UNCHANGED <<env, root, target, subdir, lib_dir, out>>

Println(line, next) ==
    /\ out' = Append(out, line)
    /\ pc' = next
    /\ UNCHANGED <<env, root, target, subdir, lib_dir, entry, panic_msg>>

EmitLinkSearch == pc = "link_search" /\ Println(LinkSearch(lib_dir), "link_static")

\* The two link-lib directives in the wrong order.
EmitLinkStaticSwapped == pc = "link_static" /\ Println(LinkDylib, "link_dylib")

EmitLinkStatic == pc = "link_static" /\ Println(LinkStatic, "link_dylib")

EmitLinkDylib == pc = "link_dylib" /\ Println(LinkDylib, "rerun_lib_dir")

EmitRerunLibDir == pc = "rerun_lib_dir" /\ Println(RerunLibDir, "rerun_root")

EmitRerunRoot == pc = "rerun_root" /\ Println(RerunRoot, "done")

Next ==
    \/ ReadLibDir
    \/ ReadRoot
    \/ ReadTarget
    \/ TargetToSubdir
    \/ JoinLibDir
    \/ CheckExists
    \/ EmitLinkSearch
    \/ EmitLinkStatic
    \/ EmitLinkDylib
    \/ EmitRerunLibDir
    \/ EmitRerunRoot

Spec == Init /\ [][Next]_vars

(***************************************************************************)
(* Vocabulary of the properties.                                           *)
(***************************************************************************)
LibDirSet == env.PDFIUM_LIB_DIR.st # "unset"

RootSet == env.PDFIUM_ROOT.st # "unset"

\* main has left the if / else-if / else that computes lib_dir with a value.
Resolved ==
    \/ pc \in {"exists", "link_search", "link_static", "link_dylib",
               "rerun_lib_dir", "rerun_root", "done"}
    \/ pc = "panicked" /\ entry # "unchecked"

Finished == pc \in {"done", "panicked"}

\* The string s occurs in the message msg.
Names(msg, s) ==
    \E i \in 0..(Len(msg) - Len(s)) : SubSeq(msg, i + 1, i + Len(s)) = s

IsPrefix(s, t) == Len(s) <= Len(t) /\ SubSeq(t, 1, Len(s)) = s

\* The operating system a target triple names.
Family(t) ==
    IF Len(t) < 5 THEN "none"
    ELSE IF t[5] \in {"android", "androideabi"} THEN "android" ELSE t[5]

Accepted == {t \in TargetStrings : target_to_subdir(t).ok}

\* The target whose subdirectory target_to_subdir has just returned.
SubdirReturned == pc = "join"

\* target_to_subdir has just panicked on the target.
TargetRejected ==
    /\ pc = "panicked"
    /\ entry = "unchecked"
    /\ env.PDFIUM_LIB_DIR.st # "ok"
    /\ env.PDFIUM_ROOT.st = "ok"
    /\ env.TARGET.st = "ok"

(***************************************************************************)
(* C1.  Whenever PDFIUM_LIB_DIR is set, the directory main resolves is the *)
(* override verbatim, whatever TARGET and PDFIUM_ROOT are: PDFIUM_ROOT and *)
(* the target table are not consulted and the only failure left is the     *)
(* existence check on that very path.                                      *)
(***************************************************************************)
C1_OverrideVerbatim ==
    (LibDirSet /\ pc # "read_lib_dir") =>
        /\ Resolved
        /\ lib_dir = env.PDFIUM_LIB_DIR.val
        /\ root = <<>> /\ target = <<>> /\ subdir = <<>>
        /\ pc = "panicked" => panic_msg = DirMissingMsg(env.PDFIUM_LIB_DIR.val)

\* The part of C1 the code keeps: an override that env::var can read is
\* resolved verbatim and nothing else is consulted.
C1_ReadableOverrideVerbatim ==
    (env.PDFIUM_LIB_DIR.st = "ok" /\ pc # "read_lib_dir") =>
        /\ Resolved
        /\ lib_dir = env.PDFIUM_LIB_DIR.val
        /\ root = <<>> /\ target = <<>> /\ subdir = <<>>
        /\ pc = "panicked" => panic_msg = DirMissingMsg(env.PDFIUM_LIB_DIR.val)

(***************************************************************************)
(* C2.  With PDFIUM_LIB_DIR unset and PDFIUM_ROOT set, for each of the     *)
(* seven supported targets the resolved directory is exactly               *)
(* root/<subdir of the table>/lib.                                         *)
(***************************************************************************)
C2_RootSubdirLib ==
    ( /\ env.PDFIUM_LIB_DIR.st = "unset"
      /\ env.PDFIUM_ROOT.st = "ok"
      /\ env.TARGET.st = "ok"
      /\ env.TARGET.val \in TableTargets
      /\ Resolved ) =>
        LET r == env.PDFIUM_ROOT.val
            s == target_to_subdir(env.TARGET.val).val
            sep == IF r = <<>> \/ r[Len(r)] = "/" THEN <<>> ELSE <<"/">>
        IN  lib_dir = r \o sep \o s \o <<"/", "lib">>

C2_Witness ==
    /\ env.PDFIUM_LIB_DIR.st = "unset"
    /\ env.PDFIUM_ROOT = Str(<<"/", "p">>)
    /\ env.TARGET = Str(T_armv7_linux_androideabi)
    /\ pc = "done"
    /\ lib_dir = <<"/", "p", "/", "android", "/", "armeabi-v7a", "/", "lib">>

(***************************************************************************)
(* C3 as stated.  For an unrecognized target with PDFIUM_LIB_DIR unset the *)
(* run fails, and the diagnostic names the target and tells the operator   *)
(* to set PDFIUM_LIB_DIR, for every setting of PDFIUM_ROOT.                *)
(***************************************************************************)
C3_TargetDiagnosticAlways ==
    ( /\ env.PDFIUM_LIB_DIR.st = "unset"
      /\ env.TARGET.st = "ok"
      /\ env.TARGET.val \notin TableTargets ) =>
        /\ ~Resolved
        /\ Finished =>
             /\ pc = "panicked"
             /\ Names(panic_msg, <<"pdfium-wrapper-sys: unsupported target '">>
                                    \o env.TARGET.val \o <<"'. Set ">>)
             /\ Names(panic_msg, <<"PDFIUM_LIB_DIR">>)

(***************************************************************************)
(* C3 amended.  For an unrecognized target with PDFIUM_LIB_DIR unset the   *)
(* run never resolves a directory, prints nothing and can only end in a    *)
(* panic.  The diagnostic names the target and tells the operator to set   *)
(* PDFIUM_LIB_DIR exactly when PDFIUM_ROOT was read; when PDFIUM_ROOT is   *)
(* unset or unreadable the diagnostic is the one that lists both           *)
(* variables, and it does not name the target.                             *)
(***************************************************************************)
C3_UnrecognizedTargetFails ==
    ( /\ env.PDFIUM_LIB_DIR.st = "unset"
      /\ env.TARGET.st = "ok"
      /\ env.TARGET.val \notin TableTargets ) =>
        /\ ~Resolved
        /\ pc # "join"
        /\ out = <<>>
        /\ Finished =>
             /\ pc = "panicked"
             /\ IF env.PDFIUM_ROOT.st = "ok"
                THEN /\ panic_msg = <<"pdfium-wrapper-sys: unsupported target '">>
                                       \o env.TARGET.val
                                       \o <<"'. Set ", "PDFIUM_LIB_DIR", " manually.">>
                     /\ Names(panic_msg, <<"PDFIUM_LIB_DIR">>)
                ELSE /\ panic_msg = NoLibMsg
                     /\ env.TARGET.val # <<>> => ~Names(panic_msg, env.TARGET.val)

C3_Witness ==
    /\ env.PDFIUM_LIB_DIR.st = "unset"
    /\ env.PDFIUM_ROOT.st = "ok"
    /\ env.TARGET = Str(<<"aarch64", "-", "apple", "-", "darwin">>)
    /\ pc = "panicked"
    /\ Names(panic_msg, <<"aarch64", "-", "apple", "-", "darwin">>)

(***************************************************************************)
(* C4.  If the resolved path does not exist, the run panics with a         *)
(* diagnostic that names exactly that path, and nothing has been printed;  *)
(* a path that was found absent never appears in a directive, also when it *)
(* came verbatim from PDFIUM_LIB_DIR.                                      *)
(***************************************************************************)
C4_MissingDirFails ==
    /\ entry = "absent" =>
         /\ pc = "panicked"
         /\ Len(panic_msg) = Len(lib_dir) + 1
         /\ panic_msg[1] = "pdfium-wrapper-sys: library directory does not exist: "
         /\ Tail(panic_msg) = lib_dir
         /\ env.PDFIUM_LIB_DIR.st = "ok" => lib_dir = env.PDFIUM_LIB_DIR.val
         /\ out = <<>>
    /\ out # <<>> => entry \in {"dir", "file"}

C4_Witness ==
    /\ env.PDFIUM_LIB_DIR = Str(<<"p", "/">>)
    /\ entry = "absent"
    /\ pc = "panicked"
    /\ panic_msg = <<"pdfium-wrapper-sys: library directory does not exist: ", "p", "/">>

(***************************************************************************)
(* C5.  Resolution is first match wins over PDFIUM_LIB_DIR, then           *)
(* PDFIUM_ROOT + target; the run fails with the diagnostic listing both    *)
(* variables if and only if neither variable is set, whatever the target.  *)
(***************************************************************************)
C5_NeitherSetIff ==
    /\ (pc = "panicked" /\ panic_msg = NoLibMsg) => (~LibDirSet /\ ~RootSet)
    /\ (~LibDirSet /\ ~RootSet /\ Finished) => (pc = "panicked" /\ panic_msg = NoLibMsg)
    /\ (LibDirSet /\ pc # "read_lib_dir") => (Resolved /\ root = <<>>)
    /\ (~LibDirSet /\ RootSet /\ Resolved) => root = env.PDFIUM_ROOT.val

\* The part of C5 the code keeps: the order and the diagnostic in terms of
\* what env::var can read.
C5_NeitherReadableIff ==
    /\ (pc = "panicked" /\ panic_msg = NoLibMsg)
          => (env.PDFIUM_LIB_DIR.st # "ok" /\ env.PDFIUM_ROOT.st # "ok")
    /\ (env.PDFIUM_LIB_DIR.st # "ok" /\ env.PDFIUM_ROOT.st # "ok" /\ Finished)
          => (pc = "panicked" /\ panic_msg = NoLibMsg)
    /\ (env.PDFIUM_LIB_DIR.st = "ok" /\ pc # "read_lib_dir") => (Resolved /\ root = <<>>)
    /\ (env.PDFIUM_LIB_DIR.st # "ok" /\ env.PDFIUM_ROOT.st = "ok" /\ Resolved)
          => root = env.PDFIUM_ROOT.val

(***************************************************************************)
(* C6 as stated.  The arm64 simulator target aarch64-apple-ios-sim gets    *)
(* the subdirectory of the device target of the same architecture,         *)
(* aarch64-apple-ios, and no other two supported targets share one.        *)
(***************************************************************************)
C6_SimSharesDeviceDir ==
    SubdirReturned =>
        \A u \in Accepted \ {target} :
            (target_to_subdir(u).val = subdir)
                <=> ({target, u} = {T_aarch64_apple_ios_sim, T_aarch64_apple_ios})

(***************************************************************************)
(* C6 amended.  The arm64 simulator target aarch64-apple-ios-sim gets the  *)
(* subdirectory of x86_64-apple-ios (ios/x86_64), not that of the arm64    *)
(* device target aarch64-apple-ios (ios/arm64); this is the only pair of   *)
(* distinct supported targets that shares a subdirectory.                  *)
(***************************************************************************)
C6_SimSharesX86Dir ==
    SubdirReturned =>
        /\ \A u \in Accepted \ {target} :
              (target_to_subdir(u).val = subdir)
                  <=> ({target, u} = {T_aarch64_apple_ios_sim, T_x86_64_apple_ios})
        /\ target = T_aarch64_apple_ios_sim => subdir = <<"ios", "/", "x86_64">>
        /\ target = T_aarch64_apple_ios => subdir = <<"ios", "/", "arm64">>

C6_Witness ==
    /\ SubdirReturned
    /\ target = T_aarch64_apple_ios_sim
    /\ subdir = target_to_subdir(T_x86_64_apple_ios).val
    /\ subdir # target_to_subdir(T_aarch64_apple_ios).val

(***************************************************************************)
(* C7 as stated.  The accepted targets are a closed set of two mobile OS   *)
(* families, each with 2 to 3 variants; everything else is rejected and an *)
(* accepted target maps under its family's prefix.                         *)
(***************************************************************************)
C7_TwoToThreeVariants ==
    /\ SubdirReturned =>
         /\ Family(target) \in {"android", "ios"}
         /\ subdir[1] = Family(target) /\ subdir[2] = "/"
         /\ Cardinality({u \in Accepted : Family(u) = Family(target)}) \in 2..3
    /\ TargetRejected => env.TARGET.val \notin TableTargets

(***************************************************************************)
(* C7 amended.  The accepted targets are a closed set of exactly seven     *)
(* identifiers in two mobile OS families: Android with four variants and   *)
(* iOS with three.  Everything else is rejected, and an accepted target    *)
(* maps to a two-segment subdirectory under its family's prefix.           *)
(***************************************************************************)
C7_ClosedTable ==
    /\ SubdirReturned =>
         /\ target \in TableTargets
         /\ Family(target) \in {"android", "ios"}
         /\ Len(subdir) = 3 /\ subdir[1] = Family(target) /\ subdir[2] = "/"
         /\ Cardinality({u \in Accepted : Family(u) = Family(target)})
               = IF Family(target) = "android" THEN 4 ELSE 3
         /\ Cardinality(Accepted) = 7
    /\ TargetRejected =>
         /\ env.TARGET.val \notin TableTargets
         /\ panic_msg = UnsupportedTargetMsg(env.TARGET.val)
    /\ (env.TARGET.st = "ok" /\ env.TARGET.val \notin TableTargets) => ~SubdirReturned

C7_Witness ==
    /\ SubdirReturned
    /\ target = T_i686_linux_android
    /\ subdir = <<"android", "/", "x86">>

(***************************************************************************)
(* C8.  A successful run prints, in this order, the link-search directive  *)
(* for the resolved directory, the static link of pdfium_wrapper, the      *)
(* dynamic link of pdfium, and rerun-if-env-changed for PDFIUM_LIB_DIR and *)
(* for PDFIUM_ROOT; the search path is the directory the existence check   *)
(* accepted.                                                               *)
(***************************************************************************)
C8_Directives ==
    LET expected ==
          << <<"cargo:rustc-link-search=native=">> \o lib_dir,
             <<"cargo:rustc-link-lib=static=", "pdfium_wrapper">>,
             <<"cargo:rustc-link-lib=dylib=", "pdfium">>,
             <<"cargo:rerun-if-env-changed=", "PDFIUM_LIB_DIR">>,
             <<"cargo:rerun-if-env-changed=", "PDFIUM_ROOT">> >>
    IN  /\ IsPrefix(out, expected)
        /\ pc = "done" => (out = expected /\ entry \in {"dir", "file"})
        /\ (env.PDFIUM_LIB_DIR.st = "ok" /\ out # <<>>) =>
              out[1] = <<"cargo:rustc-link-search=native=">> \o env.PDFIUM_LIB_DIR.val

C8_Witness ==
    /\ pc = "done"
    /\ Len(out) = 5
    /\ env.PDFIUM_LIB_DIR.st # "ok"
    /\ out[1] = <<"cargo:rustc-link-search=native=", "p", "/", "ios", "/", "arm64", "/", "lib">>

(***************************************************************************)
(* C10.  A run that panics has printed nothing; output is either empty or, *)
(* once the run is over, complete.  The unsupported-target panic is raised *)
(* before the existence check is reached.                                  *)
(***************************************************************************)
C10_NoPartialOutput ==
    /\ pc = "panicked" => out = <<>>
    /\ Finished => Len(out) \in {0, 5}
    /\ (Finished /\ Len(out) = 5) => pc = "done"
    /\ out # <<>> => entry \in {"dir", "file"}
    /\ (pc = "panicked" /\ entry # "unchecked") =>
         /\ panic_msg = DirMissingMsg(lib_dir)
         /\ env.PDFIUM_LIB_DIR.st # "ok" => target \in TableTargets
    /\ TargetRejected =>
         /\ panic_msg = UnsupportedTargetMsg(target)
         /\ lib_dir = <<>>

C10_Witness ==
    /\ pc = "panicked"
    /\ target = <<"x86_64", "-", "unknown", "-", "linux", "-", "gnu">>
    /\ panic_msg = UnsupportedTargetMsg(target)
    /\ entry = "unchecked"
    /\ out = <<>>

====
